---- MODULE Spec2Model ----
(***************************************************************************)
(* A model of two parts of the object database:                            *)
(*   - git-odb/src/store/general/iter.rs: the AllObjects iterator, built   *)
(*     from a Snapshot of the general Store and polled with next();        *)
(*   - git-pack/src/index/verify.rs: index::File::verify_integrity and     *)
(*     its per-entry callback verify_entry.                                *)
(* The Store (collect_snapshot, load_one_index), the pack traversal, the   *)
(* checksum computation and the object codec live outside these files and  *)
(* are modelled from their documented contracts.                           *)
(***************************************************************************)
EXTENDS Integers, Sequences, FiniteSets, TLC

VARIABLES
    \* ---- iter.rs ----
    store,        \* the general::Store: indices on disk, how many are loaded, loose dbs
    snapshot,     \* the local `snapshot` of AllObjects::new
    calls,        \* number of load_one_index calls made by AllObjects::new
    pc,           \* where the caller of the iterator is
    state,        \* AllObjects.state
    num_objects,  \* AllObjects.num_objects
    loose_dbs,    \* AllObjects.loose_dbs
    yielded,      \* every Some(item) that next() has returned, in order
    ends,         \* how many times next() has returned None
    last,         \* what the latest call of next() returned
    \* ---- verify.rs ----
    vf            \* the state of one verify_integrity / verify_entry run

vars == <<store, snapshot, calls, pc, state, num_objects, loose_dbs, yielded, ends, last, vf>>

iterVars == <<state, num_objects, loose_dbs, yielded, ends, last>>

(***************************************************************************)
(* Bounds of the model.                                                    *)
(***************************************************************************)
MaxPacks == 2
MaxLoose == 2
MaxLooseLen == 1
\* how often the caller polls an iterator that has already returned None
MaxEnds == 3

\* usize::MAX of saturating_add. TLC's integers end at 2^31 - 1, which
\* stands for it; the object counts of the model stay far below.
usize_MAX == 2147483647

(***************************************************************************)
(* Data: object ids, pack indices, loose stores.                           *)
(***************************************************************************)
ObjectId == {"a", "b"}

\* Result<ObjectId, loose::iter::Error>
Ok(id) == [ok |-> TRUE, id |-> id]
Err == [ok |-> FALSE, id |-> "io"]

\* Option<Item>
None == [some |-> FALSE, item |-> Err]
Some(item) == [some |-> TRUE, item |-> item]

\* handle::IndexLookup: the ids of one pack index, sorted and distinct.
IndexLookup == {<< >>, <<"a">>, <<"b">>, <<"a", "b">>}

index_num_objects(index) == Len(index)

oid_at_index(index, entry_index) == index[entry_index + 1]

SeqsUpTo(S, n) == UNION {[1..k -> S] : k \in 0..n}

\* loose::Store: what its iter() produces, an id or a read error per item.
LooseItem == {Ok("a"), Err}

\* Every short store, and one whose read error is followed by a readable item.
LooseStore == SeqsUpTo(LooseItem, MaxLooseLen) \cup {<<Err, Ok("a")>>}

loose_iter(ldb) == ldb

\* Vec::get
vec_get(v, i) == IF i + 1 \in 1..Len(v) THEN Some(v[i + 1]) ELSE [some |-> FALSE]

(***************************************************************************)
(* general::Store: the aggregator.                                         *)
(***************************************************************************)
Stores ==
    {[disk |-> d, loaded |-> n, loose_dbs |-> l] :
        d \in SeqsUpTo(IndexLookup, MaxPacks),
        n \in 0..MaxPacks,
        l \in SeqsUpTo(LooseStore, MaxLoose)}

\* The marker names the generation of the Store's state: the number of loaded indices.
collect_snapshot(s) ==
    [indices |-> SubSeq(s.disk, 1, s.loaded), loose_dbs |-> s.loose_dbs, marker |-> s.loaded]

\* load_one_index(RefreshMode::Never, marker): [store, result], result an Option<Snapshot>.
\* A marker of an older generation gets the current Snapshot; otherwise the next
\* index not yet loaded is loaded, and None says none is left.
load_one_index(s, marker) ==
    IF marker # s.loaded
    THEN [store |-> s, result |-> Some(collect_snapshot(s))]
    ELSE IF s.loaded < Len(s.disk)
    THEN LET t == [s EXCEPT !.loaded = s.loaded + 1]
         IN [store |-> t, result |-> Some(collect_snapshot(t))]
    ELSE [store |-> s, result |-> [some |-> FALSE]]

(***************************************************************************)
(* AllObjects::new, after its loading loop.                                *)
(***************************************************************************)
saturating_add(a, b) == IF a > usize_MAX - b THEN usize_MAX ELSE a + b

RECURSIVE fold_num_objects(_, _)
fold_num_objects(dbc, indices) ==
    IF indices = << >> THEN dbc
    ELSE fold_num_objects(saturating_add(dbc, index_num_objects(Head(indices))), Tail(indices))

\* State::Pack, State::Loose, State::Depleted, with the fields of all three.
Pack(index_iter, index, entry_index, n) ==
    [tag |-> "Pack", index_iter |-> index_iter, index |-> index,
     entry_index |-> entry_index, num_objects |-> n, iter |-> << >>, lindex |-> 0]

Loose(iter, lindex) ==
    [tag |-> "Loose", index_iter |-> << >>, index |-> << >>,
     entry_index |-> 0, num_objects |-> 0, iter |-> iter, lindex |-> lindex]

Depleted ==
    [tag |-> "Depleted", index_iter |-> << >>, index |-> << >>,
     entry_index |-> 0, num_objects |-> 0, iter |-> << >>, lindex |-> 0]

\* What a call leaves behind: the iterator, what it returned, whether it panicked.
Outcome(st, ret, panic) == [state |-> st, ret |-> ret, panic |-> panic]

\* loose_dbs.get(index).expect("at least one loose db").iter()
first_loose(dbs) ==
    LET index == 0
        ldb == vec_get(dbs, index)
    IN IF ldb.some THEN Outcome(Loose(loose_iter(ldb.item), index), None, FALSE)
       ELSE Outcome(Depleted, None, TRUE)

initial_state(snap) ==
    IF snap.indices # << >>
    THEN LET index == Head(snap.indices)
         IN Outcome(Pack(Tail(snap.indices), index, 0, index_num_objects(index)), None, FALSE)
    ELSE first_loose(snap.loose_dbs)

\* A count that takes the loose stores' items in as well.
packed_objects_with_loose(snap) == fold_num_objects(0, snap.indices \o snap.loose_dbs)

packed_objects(snap) == fold_num_objects(0, snap.indices)

\* Ok(AllObjects { state, loose_dbs, num_objects: packed_objects }), or the panic of expect.
AllObjects_new(snap) ==
    LET o == initial_state(snap)
    IN [state |-> o.state, loose_dbs |-> snap.loose_dbs,
        num_objects |-> packed_objects(snap), panic |-> o.panic]

(***************************************************************************)
(* Iterator for AllObjects: next() and size_hint().                        *)
(***************************************************************************)
\* if *entry_index < *num_objects
pack_has_entry(st) == st.entry_index < st.num_objects

\* let oid = index.oid_at_index(*entry_index).to_owned(); *entry_index += 1; Some(Ok(oid))
pack_yield(st) ==
    Outcome([st EXCEPT !.entry_index = st.entry_index + 1],
            Some(Ok(oid_at_index(st.index, st.entry_index))), FALSE)

\* A pack_advance that forgets `*entry_index = 0`.
pack_advance_keeps_cursor(st) ==
    LET new_index == Head(st.index_iter)
    IN [tag |-> "Pack", index_iter |-> Tail(st.index_iter), index |-> new_index,
        entry_index |-> st.entry_index, num_objects |-> index_num_objects(new_index),
        iter |-> << >>, lindex |-> 0]

\* Some(new_index) => { *index = new_index; *entry_index = 0; *num_objects = index.num_objects() }
pack_advance(st) ==
    LET new_index == Head(st.index_iter)
    IN Pack(Tail(st.index_iter), new_index, 0, index_num_objects(new_index))

\* A loose_yield that gives up the loose stores on an error item.
loose_yield_err_depletes(st) ==
    IF Head(st.iter).ok THEN Outcome([st EXCEPT !.iter = Tail(st.iter)], Some(Head(st.iter)), FALSE)
    ELSE Outcome(Depleted, Some(Head(st.iter)), FALSE)

\* Some(id) => Some(id)
loose_yield(st) == Outcome([st EXCEPT !.iter = Tail(st.iter)], Some(Head(st.iter)), FALSE)

\* A loose_advance that steps over a loose store: `*index += 2`.
loose_advance_skips(st, dbs) ==
    LET index == st.lindex + 2
        new_iter == vec_get(dbs, index)
    IN IF new_iter.some
       THEN [some |-> TRUE, state |-> Loose(loose_iter(new_iter.item), index)]
       ELSE [some |-> FALSE, state |-> Depleted]

\* A loose_advance that, with no loose store left, rewinds to the first loose store
\* instead of setting State::Depleted.
loose_advance_rewinds(st, dbs) ==
    LET index == st.lindex + 1
        new_iter == vec_get(dbs, index)
    IN IF new_iter.some
       THEN [some |-> TRUE, state |-> Loose(loose_iter(new_iter.item), index)]
       ELSE [some |-> FALSE, state |-> Loose(loose_iter(dbs[1]), 0)]

\* *index += 1; self.loose_dbs.get(*index).map(|ldb| ldb.iter())
loose_advance(st, dbs) ==
    LET index == st.lindex + 1
        new_iter == vec_get(dbs, index)
    IN IF new_iter.some
       THEN [some |-> TRUE, state |-> Loose(loose_iter(new_iter.item), index)]
       ELSE [some |-> FALSE, state |-> Depleted]

RECURSIVE next(_, _)
\* A next that returns None where the source it moved to is empty, without recursing.
next_stops_at_empty(st, dbs) ==
    CASE st.tag = "Depleted" -> Outcome(st, None, FALSE)
      [] st.tag = "Pack" ->
            IF pack_has_entry(st) THEN pack_yield(st)
            ELSE IF st.index_iter # << >>
                 THEN LET p == pack_advance(st)
                      IN IF pack_has_entry(p) THEN pack_yield(p) ELSE Outcome(p, None, FALSE)
            ELSE LET o == first_loose(dbs)
                 IN IF o.panic THEN Outcome(st, None, TRUE) ELSE next(o.state, dbs)
      [] st.tag = "Loose" ->
            IF st.iter # << >> THEN loose_yield(st)
            ELSE LET a == loose_advance(st, dbs)
                 IN IF ~a.some THEN Outcome(a.state, None, FALSE)
                    ELSE IF a.state.iter # << >> THEN loose_yield(a.state)
                    ELSE Outcome(a.state, None, FALSE)

next(st, dbs) ==
    CASE st.tag = "Depleted" -> Outcome(st, None, FALSE)
      [] st.tag = "Pack" ->
            IF pack_has_entry(st) THEN pack_yield(st)
            ELSE IF st.index_iter # << >> THEN next(pack_advance(st), dbs)
            ELSE LET o == first_loose(dbs)
                 IN IF o.panic THEN Outcome(st, None, TRUE) ELSE next(o.state, dbs)
      [] st.tag = "Loose" ->
            IF st.iter # << >> THEN loose_yield(st)
            ELSE LET a == loose_advance(st, dbs)
                 IN IF a.some THEN next(a.state, dbs) ELSE Outcome(a.state, None, FALSE)

size_hint(n) == <<n, "None">>

(***************************************************************************)
(* Spec: every Snapshot a fully loaded Store can hand out, an iterator     *)
(* freshly built from it, and its caller calling next().                   *)
(***************************************************************************)
Snapshots ==
    {collect_snapshot(s) : s \in {t \in Stores : t.loaded = Len(t.disk)}}

NoVerify == [phase |-> "off"]

Init ==
    \E snap \in Snapshots :
        LET it == AllObjects_new(snap)
        IN /\ store = [disk |-> snap.indices, loaded |-> Len(snap.indices),
                       loose_dbs |-> snap.loose_dbs]
           /\ snapshot = snap
           /\ calls = 0
           /\ pc = IF it.panic THEN "panicked" ELSE "iter"
           /\ state = it.state
           /\ num_objects = it.num_objects
           /\ loose_dbs = it.loose_dbs
           /\ yielded = << >>
           /\ ends = 0
           /\ last = None
           /\ vf = NoVerify

\* A call of next() that takes each yielded item off num_objects.
Next_call_counts_down ==
    /\ pc = "iter"
    /\ ends < MaxEnds
    /\ LET o == next(state, loose_dbs)
       IN /\ state' = o.state
          /\ pc' = IF o.panic THEN "panicked" ELSE "iter"
          /\ last' = o.ret
          /\ yielded' = IF o.ret.some THEN Append(yielded, o.ret.item) ELSE yielded
          /\ ends' = IF ~o.panic /\ ~o.ret.some THEN ends + 1 ELSE ends
          /\ num_objects' = IF o.ret.some /\ num_objects > 0 THEN num_objects - 1 ELSE num_objects
    /\ UNCHANGED <<store, snapshot, calls, loose_dbs, vf>>

\* One call of next(), its recursion included.
Next_call ==
    /\ pc = "iter"
    /\ ends < MaxEnds
    /\ LET o == next(state, loose_dbs)
       IN /\ state' = o.state
          /\ pc' = IF o.panic THEN "panicked" ELSE "iter"
          /\ last' = o.ret
          /\ yielded' = IF o.ret.some THEN Append(yielded, o.ret.item) ELSE yielded
          /\ ends' = IF ~o.panic /\ ~o.ret.some THEN ends + 1 ELSE ends
    /\ UNCHANGED <<store, snapshot, calls, num_objects, loose_dbs, vf>>

Next == Next_call

Spec == Init /\ [][Next]_vars

(***************************************************************************)
(* SpecNew: AllObjects::new step by step, on a Store that has loaded any   *)
(* number of its indices and that other handles load indices of as well,   *)
(* then the caller calling next(). The loop reads no loose store, so the   *)
(* loose stores are empty here; Spec covers their contents.                *)
(***************************************************************************)
NoSnapshot == [indices |-> << >>, loose_dbs |-> << >>, marker |-> 0]

InitNew ==
    /\ store \in {s \in Stores : /\ s.loaded <= Len(s.disk)
                                 /\ \A i \in DOMAIN s.loose_dbs : s.loose_dbs[i] = << >>}
    /\ snapshot = NoSnapshot
    /\ calls = 0
    /\ pc = "new"
    /\ state = Depleted
    /\ num_objects = 0
    /\ loose_dbs = << >>
    /\ yielded = << >>
    /\ ends = 0
    /\ last = None
    /\ vf = NoVerify

\* let mut snapshot = db.collect_snapshot();
New_collect ==
    /\ pc = "new"
    /\ snapshot' = collect_snapshot(store)
    /\ pc' = "loading"
    /\ UNCHANGED <<store, calls, state, num_objects, loose_dbs, yielded, ends, last, vf>>

\* A loop body that drops `snapshot = new_snapshot`.
loop_assign_dropped(snap, new_snapshot) == snap

\* snapshot = new_snapshot
loop_assign(snap, new_snapshot) == new_snapshot

\* while let Some(new_snapshot) = db.load_one_index(RefreshMode::Never, snapshot.marker)?
New_load_one ==
    /\ pc = "loading"
    /\ LET r == load_one_index(store, snapshot.marker)
       IN /\ store' = r.store
          /\ calls' = calls + 1
          /\ IF r.result.some
             THEN snapshot' = loop_assign(snapshot, r.result.item) /\ pc' = pc
             ELSE snapshot' = snapshot /\ pc' = "build"
    /\ UNCHANGED <<state, num_objects, loose_dbs, yielded, ends, last, vf>>

\* The rest of new(): the count, the first state, the iterator.
New_build ==
    /\ pc = "build"
    /\ LET it == AllObjects_new(snapshot)
       IN /\ pc' = IF it.panic THEN "panicked" ELSE "iter"
          /\ state' = it.state
          /\ num_objects' = it.num_objects
          /\ loose_dbs' = it.loose_dbs
    /\ UNCHANGED <<store, snapshot, calls, yielded, ends, last, vf>>

\* Another handle of the same Store loads the next index while new() runs.
Other_load ==
    /\ pc \in {"new", "loading"}
    /\ store.loaded < Len(store.disk)
    /\ store' = [store EXCEPT !.loaded = store.loaded + 1]
    /\ UNCHANGED <<snapshot, calls, pc, state, num_objects, loose_dbs, yielded, ends, last, vf>>

NextNew == New_collect \/ New_load_one \/ New_build \/ Other_load \/ Next_call

SpecNew == InitNew /\ [][NextNew]_vars

(***************************************************************************)
(* git-object: kinds, object bytes and the codec verify_entry relies on.   *)
(* A buffer is a sequence of fields, each a run of bytes of the object.    *)
(***************************************************************************)
Kind == {"Tree", "Blob", "Commit", "Tag"}

Field == {"100644 f",        \* a tree entry, or a line of text
          "100664 f",        \* a tree entry with a group-writable file mode
          "100644 100640",   \* a tree entry, or a line, whose name holds the digits 100640
          "040000 d",        \* a tree entry whose mode has a leading zero
          "line ",           \* a header line with trailing space, no tree entry
          "junk"}            \* bytes no object parser accepts

MaxBufLen == 2

Bufs == SeqsUpTo(Field, MaxBufLen)

\* tree::EntryMode and the name, as the tree parser reads one entry
tree_entry(f) ==
    CASE f = "100644 f" -> [ok |-> TRUE, mode |-> "Blob", name |-> "f"]
      [] f = "100664 f" -> [ok |-> TRUE, mode |-> "Blob", name |-> "f"]
      [] f = "100644 100640" -> [ok |-> TRUE, mode |-> "Blob", name |-> "100640"]
      [] f = "040000 d" -> [ok |-> TRUE, mode |-> "Tree", name |-> "d"]
      [] OTHER -> [ok |-> FALSE, mode |-> "", name |-> ""]

\* a line of a commit or tag, as their parsers read it
text_line(f) ==
    CASE f = "junk" -> [ok |-> FALSE, mode |-> "", name |-> ""]
      [] f = "line " -> [ok |-> TRUE, mode |-> "line", name |-> "line"]
      [] OTHER -> [ok |-> TRUE, mode |-> "line", name |-> f]

parse_field(kind, f) == IF kind = "Tree" THEN tree_entry(f) ELSE text_line(f)

\* ObjectRef::from_bytes(kind, buf): the parsed object, or a decode::Error
from_bytes(kind, buf) ==
    IF \E i \in DOMAIN buf : ~parse_field(kind, buf[i]).ok
    THEN [ok |-> FALSE, kind |-> kind, fields |-> << >>,
          err |-> [at |-> CHOOSE i \in DOMAIN buf : /\ ~parse_field(kind, buf[i]).ok
                                                   /\ \A j \in 1..(i - 1) : parse_field(kind, buf[j]).ok]]
    ELSE [ok |-> TRUE, kind |-> kind, err |-> [at |-> 0], fields |-> [i \in DOMAIN buf |-> parse_field(kind, buf[i])]]

\* how the writer spells one parsed field
write_field(v) ==
    CASE v.mode = "line" -> v.name
      [] v.mode = "Tree" -> "40000 d"
      [] v.mode = "Blob" /\ v.name = "f" -> "100644 f"
      [] OTHER -> "100644 100640"

\* object.write_to(&mut buf): appends the object's canonical bytes
write_to(object, out) == out \o [i \in DOMAIN object.fields |-> write_field(object.fields[i])]

\* buf.as_bstr().find(needle).is_some(), needle one of 100664, 100640
bstr_find(buf, needle) ==
    \E i \in DOMAIN buf :
        \/ needle = "100664" /\ buf[i] = "100664 f"
        \/ needle = "100640" /\ buf[i] = "100644 100640"

(***************************************************************************)
(* index::File::verify_entry                                               *)
(***************************************************************************)
Mode == {"HashCrc32", "HashCrc32Decode", "HashCrc32DecodeEncode"}

EntryOk == [ok |-> TRUE, error |-> "none"]
ObjectDecode(source, kind, id) ==
    [ok |-> FALSE, error |-> "ObjectDecode", source |-> source, kind |-> kind, id |-> id]

\* An error built with its two byte strings the wrong way round.
ObjectEncodeMismatch_swapped(kind, id, expected, actual) ==
    [ok |-> FALSE, error |-> "ObjectEncodeMismatch", kind |-> kind, id |-> id,
     expected |-> actual, actual |-> expected]

ObjectEncodeMismatch(kind, id, expected, actual) ==
    [ok |-> FALSE, error |-> "ObjectEncodeMismatch", kind |-> kind, id |-> id,
     expected |-> expected, actual |-> actual]

\* What one call leaves behind: its result, the scratch buffer, the messages pushed
\* to the progress sink, and whether it ran the decoder.
Verified(ret, encode_buf, infos, decoded) ==
    [ret |-> ret, encode_buf |-> encode_buf, infos |-> infos, decoded |-> decoded]

\* A test that lets every mode through to the decoder.
mode_decodes_always(mode) == mode \in {"HashCrc32", "HashCrc32Decode", "HashCrc32DecodeEncode"}

\* A test that forgets the strictest mode.
mode_decodes_only_decode(mode) == mode \in {"HashCrc32Decode"}

\* if let Mode::HashCrc32Decode | Mode::HashCrc32DecodeEncode = mode
mode_decodes(mode) == mode \in {"HashCrc32Decode", "HashCrc32DecodeEncode"}

\* A match that sends every kind to the decoder.
kind_decodes_blob_too(object_kind) == object_kind \in {"Tree", "Commit", "Tag", "Blob"}

\* Tree | Commit | Tag => { .. }, Blob => {}
kind_decodes(object_kind) == object_kind \in {"Tree", "Commit", "Tag"}

\* A special case that looks for 100664 alone.
tolerated_only_100664(object_kind, buf) ==
    object_kind = "Tree" /\ bstr_find(buf, "100664")

\* A special case that does not ask for the kind.
tolerated_any_kind(object_kind, buf) ==
    bstr_find(buf, "100664") \/ bstr_find(buf, "100640")

\* the Tree special case of a re-encoding that differs
tolerated(object_kind, buf) ==
    object_kind = "Tree" /\ (bstr_find(buf, "100664") \/ bstr_find(buf, "100640"))

verify_entry(mode, encode_buf, object_kind, buf, oid, infos) ==
    IF mode_decodes(mode) /\ kind_decodes(object_kind)
    THEN LET object == from_bytes(object_kind, buf)
         IN IF ~object.ok
            THEN Verified(ObjectDecode(object.err, object_kind, oid), encode_buf, infos, TRUE)
            ELSE IF mode = "HashCrc32DecodeEncode"
            THEN LET written == write_to(object, << >>)
                 IN IF written # buf
                    THEN IF tolerated(object_kind, buf)
                         THEN Verified(EntryOk, written, Append(infos, oid), TRUE)
                         ELSE Verified(ObjectEncodeMismatch(object_kind, oid, buf, written),
                                       written, infos, TRUE)
                    ELSE Verified(EntryOk, written, infos, TRUE)
            ELSE Verified(EntryOk, encode_buf, infos, TRUE)
    ELSE Verified(EntryOk, encode_buf, infos, FALSE)

(***************************************************************************)
(* SpecEntry: one call of verify_entry, on every mode, kind and buffer,    *)
(* the scratch buffer and the progress sink holding what an earlier call   *)
(* of the same closure can have left in them.                              *)
(***************************************************************************)
InitEntry ==
    /\ store = [disk |-> << >>, loaded |-> 0, loose_dbs |-> << >>]
    /\ snapshot = NoSnapshot
    /\ calls = 0
    /\ pc = "verify_entry"
    /\ state = Depleted
    /\ num_objects = 0
    /\ loose_dbs = << >>
    /\ yielded = << >>
    /\ ends = 0
    /\ last = None
    /\ \E mode \in Mode, prior \in {<< >>, <<"100644 f">>}, told \in {<< >>, <<"b">>} :
          vf = [phase |-> "entry", mode |-> mode, kind |-> "Blob", buf |-> << >>,
                before |-> prior, encode_buf |-> prior, told |-> told, infos |-> told,
                pushed |-> 0, called |-> FALSE, ret |-> EntryOk, decoded |-> FALSE]

\* One call of the per-entry callback, on the entry the traversal hands it.
Entry_call ==
    /\ pc = "verify_entry"
    /\ ~vf.called
    /\ \E kind \in Kind, buf \in Bufs :
          LET v == verify_entry(vf.mode, vf.encode_buf, kind, buf, "a", vf.infos)
          IN vf' = [vf EXCEPT !.kind = kind, !.buf = buf,
                              !.before = vf.encode_buf, !.encode_buf = v.encode_buf,
                              !.infos = v.infos, !.pushed = Len(v.infos) - Len(vf.infos),
                              !.called = TRUE,
                              !.ret = v.ret, !.decoded = v.decoded]
    /\ UNCHANGED <<store, snapshot, calls, pc, state, num_objects, loose_dbs, yielded, ends, last>>

NextEntry == Entry_call

SpecEntry == InitEntry /\ [][NextEntry]_vars

(***************************************************************************)
(* index::File::verify_integrity, over the traversal and the checksum      *)
(* computation it delegates to.                                            *)
(***************************************************************************)
MaxEntries == 2
MaxThreads == 2

Algorithm == {"DeltaTreeLookup", "Lookup"}

OidOf(i) == <<"a", "b", "c", "d">>[i]

\* The objects a pack can hold at one index position: kind and bytes.
PackObject ==
    {[kind |-> "Blob", buf |-> <<"junk">>],
     [kind |-> "Commit", buf |-> <<"junk">>],
     [kind |-> "Tree", buf |-> <<"100664 f">>],
     [kind |-> "Tag", buf |-> <<"line ">>]}

VerifyOk(id, outcome, progress) ==
    [ok |-> TRUE, error |-> "none", id |-> id, outcome |-> outcome, progress |-> progress]

VerifyErr(error) ==
    [ok |-> FALSE, error |-> error, id |-> "none", outcome |-> "none", progress |-> "none"]

\* Options handed over with a flag of their own instead of the caller's.
traverse_options_own_flag(algorithm, thread_limit, should_interrupt) ==
    [algorithm |-> algorithm, thread_limit |-> thread_limit, check |-> "All",
     should_interrupt |-> "fresh"]

\* index::traverse::Options { algorithm, thread_limit, check: SafetyCheck::All, should_interrupt }
traverse_options(algorithm, thread_limit, should_interrupt) ==
    [algorithm |-> algorithm, thread_limit |-> thread_limit, check |-> "All",
     should_interrupt |-> should_interrupt]

\* A callback that runs verify_entry and drops what it returns.
processor_drops_result(mode, encode_buf, entry, oid, infos) ==
    [verify_entry(mode, encode_buf, entry.kind, entry.buf, oid, infos) EXCEPT !.ret = EntryOk]

\* move |kind, data, index_entry, progress| Self::verify_entry(mode, &mut encode_buf, ..)
processor(mode, encode_buf, entry, oid, infos) ==
    verify_entry(mode, encode_buf, entry.kind, entry.buf, oid, infos)

\* .map(|(id, outcome, root)| (id, Some(outcome), root))
with_pack_result(r) ==
    IF r.ok THEN VerifyOk(r.id, [some |-> TRUE, entries |-> r.outcome], r.progress)
    ELSE VerifyErr(r.error)

\* A None arm that hands out the pack's checksum for the index's.
without_pack_result_pack_id(r, progress) ==
    IF r.ok THEN VerifyOk("pack_checksum", [some |-> FALSE, entries |-> 0], progress)
    ELSE VerifyErr(r.error)

\* .map_err(Into::into).map(|id| (id, None, root.into_inner()))
without_pack_result(r, progress) ==
    IF r.ok THEN VerifyOk(r.id, [some |-> FALSE, entries |-> 0], progress)
    ELSE VerifyErr(r.error)

\* An Arc<AtomicBool>: the caller's, or one nobody sets.
flag_load(ref, shared) == IF ref = "shared" THEN shared ELSE FALSE

\* verify_checksum: polls the flag while hashing, then compares the digests.
verify_checksum(interrupted, matches) ==
    IF interrupted THEN [ok |-> FALSE, error |-> "Interrupted", id |-> "none"]
    ELSE IF ~matches THEN [ok |-> FALSE, error |-> "ChecksumMismatch", id |-> "none"]
    ELSE [ok |-> TRUE, error |-> "none", id |-> "index_checksum"]

InitVerify ==
    /\ store = [disk |-> << >>, loaded |-> 0, loose_dbs |-> << >>]
    /\ snapshot = NoSnapshot
    /\ calls = 0
    /\ pc = "verify_integrity"
    /\ state = Depleted
    /\ num_objects = 0
    /\ loose_dbs = << >>
    /\ yielded = << >>
    /\ ends = 0
    /\ last = None
    /\ \E pack \in BOOLEAN, mode \in Mode, algorithm \in Algorithm,
          thread_limit \in 1..MaxThreads, entries \in SeqsUpTo(PackObject, MaxEntries),
          progress \in {"None", "Some"} :
          vf = [phase |-> "called", pack |-> pack, mode |-> mode, algorithm |-> algorithm,
                thread_limit |-> thread_limit, entries |-> entries, progress |-> progress,
                should_interrupt |-> FALSE, set_at_call |-> FALSE,
                opts |-> traverse_options("Lookup", 1, "shared"),
                todo |-> {}, worker |-> << >>, encode_buf |-> << >>,
                visited |-> {}, infos |-> << >>, entry_calls |-> 0, traversals |-> 0,
                checksum |-> verify_checksum(FALSE, TRUE), result |-> VerifyErr("none")]

\* The caller, or any thread holding the flag, sets should_interrupt.
Interrupt ==
    /\ vf.phase \in {"called", "checksum", "traverse_checksum", "traverse"}
    /\ ~vf.should_interrupt
    /\ vf' = [vf EXCEPT !.should_interrupt = TRUE]
    /\ UNCHANGED <<store, snapshot, calls, pc, state, num_objects, loose_dbs, yielded, ends, last>>

\* verify_integrity is entered: match pack { Some(..) => self.traverse(..), None => .. }
Verify_integrity_call ==
    /\ vf.phase = "called"
    /\ vf' = IF vf.pack
             THEN [vf EXCEPT !.phase = "traverse_checksum",
                             !.set_at_call = vf.should_interrupt,
                             !.traversals = 1,
                             !.opts = traverse_options(vf.algorithm, vf.thread_limit, "shared")]
             ELSE [vf EXCEPT !.phase = "checksum", !.set_at_call = vf.should_interrupt]
    /\ UNCHANGED <<store, snapshot, calls, pc, state, num_objects, loose_dbs, yielded, ends, last>>

\* None => self.verify_checksum(..), and the result of verify_integrity
Verify_checksum_only ==
    /\ vf.phase = "checksum"
    /\ \E matches \in BOOLEAN :
          LET r == verify_checksum(vf.should_interrupt, matches)
          IN vf' = [vf EXCEPT !.phase = "done", !.checksum = r,
                              !.result = without_pack_result(r, vf.progress)]
    /\ UNCHANGED <<store, snapshot, calls, pc, state, num_objects, loose_dbs, yielded, ends, last>>

\* traverse, SafetyCheck::All: the checksums first, then the workers are started
Traverse_checksums ==
    /\ vf.phase = "traverse_checksum"
    /\ \E matches \in BOOLEAN :
          LET r == verify_checksum(flag_load(vf.opts.should_interrupt, vf.should_interrupt), matches)
          IN vf' = IF r.ok
                   THEN [vf EXCEPT !.phase = "traverse", !.checksum = r,
                                   !.todo = DOMAIN vf.entries,
                                   !.worker = [t \in 1..vf.opts.thread_limit |-> 0],
                                   !.encode_buf = [t \in 1..vf.opts.thread_limit |-> << >>]]
                   ELSE [vf EXCEPT !.phase = "done", !.checksum = r,
                                   !.result = with_pack_result(VerifyErr(r.error))]
    /\ UNCHANGED <<store, snapshot, calls, pc, state, num_objects, loose_dbs, yielded, ends, last>>

\* the entries a worker may take next: in index order, or in the delta tree's order
Takeable(v) ==
    IF v.opts.algorithm = "Lookup"
    THEN {i \in v.todo : \A j \in v.todo : i <= j}
    ELSE v.todo

\* A worker polls the flag and takes its next entry.
Worker_take(t) ==
    /\ vf.phase = "traverse"
    /\ vf.worker[t] = 0
    /\ vf.todo # {}
    /\ IF flag_load(vf.opts.should_interrupt, vf.should_interrupt)
       THEN vf' = [vf EXCEPT !.phase = "done",
                             !.result = with_pack_result(VerifyErr("Interrupted"))]
       ELSE \E i \in Takeable(vf) :
               vf' = [vf EXCEPT !.worker[t] = i, !.todo = vf.todo \ {i}]
    /\ UNCHANGED <<store, snapshot, calls, pc, state, num_objects, loose_dbs, yielded, ends, last>>

\* A worker runs the callback on its entry; an error ends the traversal.
Worker_process(t) ==
    /\ vf.phase = "traverse"
    /\ vf.worker[t] # 0
    /\ LET i == vf.worker[t]
           v == processor(vf.mode, vf.encode_buf[t], vf.entries[i], OidOf(i), vf.infos)
       IN vf' = IF v.ret.ok
                THEN [vf EXCEPT !.worker[t] = 0, !.encode_buf[t] = v.encode_buf,
                                !.infos = v.infos, !.visited = vf.visited \cup {i},
                                !.entry_calls = vf.entry_calls + 1]
                ELSE [vf EXCEPT !.phase = "done", !.encode_buf[t] = v.encode_buf,
                                !.infos = v.infos, !.entry_calls = vf.entry_calls + 1,
                                !.result = with_pack_result(VerifyErr(v.ret.error))]
    /\ UNCHANGED <<store, snapshot, calls, pc, state, num_objects, loose_dbs, yielded, ends, last>>

\* Every entry is done: Ok((checksum, outcome, progress)).
Traverse_finish ==
    /\ vf.phase = "traverse"
    /\ vf.todo = {}
    /\ \A t \in DOMAIN vf.worker : vf.worker[t] = 0
    /\ vf' = [vf EXCEPT !.phase = "done",
                        !.result = with_pack_result(
                            VerifyOk(vf.checksum.id, Cardinality(vf.visited), vf.progress))]
    /\ UNCHANGED <<store, snapshot, calls, pc, state, num_objects, loose_dbs, yielded, ends, last>>

NextVerify ==
    \/ Interrupt
    \/ Verify_integrity_call
    \/ Verify_checksum_only
    \/ Traverse_checksums
    \/ \E t \in 1..MaxThreads : t \in DOMAIN vf.worker /\ Worker_take(t)
    \/ \E t \in 1..MaxThreads : t \in DOMAIN vf.worker /\ Worker_process(t)
    \/ Traverse_finish

SpecVerify == InitVerify /\ [][NextVerify]_vars

(***************************************************************************)
(* index::File::index_checksum and pack_checksum: the two trailing hashes  *)
(* of the index file's bytes.                                              *)
(***************************************************************************)
MaxHashLen == 2
MaxBody == 2

Byte == {0, 1}

\* &data[from..] and &data[..to], on offsets counted from 0
slice_from(data, from) == SubSeq(data, from + 1, Len(data))
slice_to(data, to) == SubSeq(data, 1, to)

\* git_hash::ObjectId::from(&[u8]): an id owning a copy of the bytes
ObjectId_from(bytes) == [bytes |-> bytes]

\* git_hash::ObjectId::from(&self.data[self.data.len() - self.hash_len..])
index_checksum(data, hash_len) == ObjectId_from(slice_from(data, Len(data) - hash_len))

\* A start of the pack checksum that leaves out the `* 2`.
pack_checksum_from_one_back(data, hash_len) == Len(data) - hash_len

\* let from = self.data.len() - self.hash_len * 2;
pack_checksum_from(data, hash_len) == Len(data) - hash_len * 2

\* git_hash::ObjectId::from(&self.data[from..][..self.hash_len])
pack_checksum(data, hash_len) ==
    LET from == pack_checksum_from(data, hash_len)
    IN ObjectId_from(slice_to(slice_from(data, from), hash_len))

\* An index file: hash_len of 1..MaxHashLen bytes, and data of up to MaxBody bytes
\* followed by the two hashes.
InitChecksum ==
    /\ \E hash_len \in 1..MaxHashLen :
       \E len \in (2 * hash_len)..(2 * hash_len + MaxBody) :
       \E data \in [1..len -> Byte] :
          vf = [phase |-> "checksum", opened |-> data, data |-> data, hash_len |-> hash_len,
                index_ret |-> None, pack_ret |-> None]
    /\ store = [disk |-> << >>, loaded |-> 0, loose_dbs |-> << >>]
    /\ snapshot = NoSnapshot
    /\ calls = 0
    /\ pc = "checksum"
    /\ state = Depleted
    /\ num_objects = 0
    /\ loose_dbs = << >>
    /\ yielded = << >>
    /\ ends = 0
    /\ last = None

\* pub fn index_checksum(&self)
Index_checksum_call ==
    /\ pc = "checksum"
    /\ ~vf.index_ret.some
    /\ vf' = [vf EXCEPT !.index_ret = Some(index_checksum(vf.data, vf.hash_len))]
    /\ UNCHANGED iterVars
    /\ UNCHANGED <<store, snapshot, calls, pc>>

\* pub fn pack_checksum(&self)
Pack_checksum_call ==
    /\ pc = "checksum"
    /\ ~vf.pack_ret.some
    /\ vf' = [vf EXCEPT !.pack_ret = Some(pack_checksum(vf.data, vf.hash_len))]
    /\ UNCHANGED iterVars
    /\ UNCHANGED <<store, snapshot, calls, pc>>

NextChecksum == Index_checksum_call \/ Pack_checksum_call

SpecChecksum == InitChecksum /\ [][NextChecksum]_vars

(***************************************************************************)
(* What one pass has to produce.                                           *)
(***************************************************************************)
RECURSIVE Concat(_)
Concat(ss) == IF ss = << >> THEN << >> ELSE Head(ss) \o Concat(Tail(ss))

\* the entries 0..num_objects-1 of every pack index, in the Snapshot's index order
PackEntries(snap) == Concat([i \in DOMAIN snap.indices |-> [k \in DOMAIN snap.indices[i] |-> Ok(snap.indices[i][k])]])

\* the items of every loose store, in loose-store list order
LooseItems(snap) == Concat(snap.loose_dbs)

RECURSIVE SumLen(_)
SumLen(ss) == IF ss = << >> THEN 0 ELSE Len(Head(ss)) + SumLen(Tail(ss))

IsPrefix(s, t) == Len(s) <= Len(t) /\ s = SubSeq(t, 1, Len(s))

Occurrences(s, x) == Cardinality({i \in DOMAIN s : s[i] = x})

PassOver == ends > 0 \/ pc = "panicked"

\* C1: a pass of a fresh iterator yields N + (number of loose items) items, N the
\* number of entries of all pack indices: first the entries of each pack index in the
\* Snapshot's index order, each index exhausted before the next, then the items of
\* each loose store in list order; before the pass is over, a prefix of that.
C1_PacksInOrderThenLoose ==
    LET N == SumLen(snapshot.indices)
        want == PackEntries(snapshot) \o LooseItems(snapshot)
    IN /\ IsPrefix(yielded, want)
       /\ PassOver =>
            /\ Len(yielded) = N + SumLen(snapshot.loose_dbs)
            /\ SubSeq(yielded, 1, N) = PackEntries(snapshot)
            /\ SubSeq(yielded, N + 1, Len(yielded)) = LooseItems(snapshot)

C1_Witness ==
    /\ ends > 0
    /\ Len(snapshot.indices) = 2 /\ Len(snapshot.indices[1]) = 2 /\ Len(snapshot.indices[2]) = 1
    /\ Len(snapshot.loose_dbs) = 2 /\ SumLen(snapshot.loose_dbs) = 2
    /\ Len(yielded) = 5

StoredIn(snap, id) ==
    Occurrences(PackEntries(snap), Ok(id)) + Occurrences(LooseItems(snap), Ok(id))

\* C2 as stated: at the end of a pass every identifier stored in the Snapshot has been
\* yielded exactly once, none omitted and none twice.
C2_EachIdentifierOnce ==
    ends > 0 => \A id \in ObjectId :
        StoredIn(snapshot, id) > 0 => Occurrences(yielded, Ok(id)) = 1

\* C2 amended: at the end of a pass every stored entry has been yielded exactly once,
\* so an identifier has been yielded once per pack index entry and loose item
\* holding it: never omitted, and twice only if stored twice.
C2_EachEntryOnce ==
    PassOver => \A id \in ObjectId :
        Occurrences(yielded, Ok(id)) = StoredIn(snapshot, id)

C2_Witness ==
    /\ ends > 0
    /\ StoredIn(snapshot, "a") = 3
    /\ Occurrences(yielded, Ok("a")) = 3
    /\ StoredIn(snapshot, "b") = 1

\* C3: once next() has returned None the iterator is Depleted, and every later call
\* returns None again, leaves it Depleted and yields nothing.
C3_DepletedForever ==
    /\ [](ends > 0 => (state.tag = "Depleted" /\ last = None))
    /\ [][ends > 0 => (state'.tag = "Depleted" /\ last' = None /\ yielded' = yielded)]_vars

C3_Witness ==
    /\ ends = MaxEnds
    /\ state.tag = "Depleted"
    /\ last = None
    /\ Len(yielded) > 0

Fresh == pc = "iter" /\ yielded = << >> /\ ends = 0

\* C4: right after new() has succeeded, size_hint() is (the number of entries of all
\* pack indices of the Snapshot, None), whatever the loose stores hold.
C4_SizeHintIsPackedCount ==
    Fresh => size_hint(num_objects) = <<SumLen(snapshot.indices), "None">>

C4_Witness ==
    /\ Fresh
    /\ size_hint(num_objects) = <<3, "None">>
    /\ SumLen(snapshot.loose_dbs) = 2

NewDone == pc \in {"build", "iter", "panicked"}

\* the pack indices the iterator has still to walk, the current one first
PackSequence(st) == IF st.tag = "Pack" THEN <<st.index>> \o st.index_iter ELSE << >>

\* C5: new() calls load_one_index with the marker of its latest Snapshot until it
\* gets None, which takes at most one call more than the Store has indices; the
\* Snapshot it then builds from holds every index of the Store, however few were
\* loaded at the first call, and so do the iterator's pack sequence and count.
C5_EveryIndexLoaded ==
    /\ calls <= Len(store.disk) + 1
    /\ pc = "loading" => snapshot.marker <= store.loaded
    /\ NewDone => /\ calls >= 1
                  /\ store.loaded = Len(store.disk)
                  /\ snapshot.indices = store.disk
    /\ Fresh => PackSequence(state) = store.disk
    /\ pc = "iter" => num_objects = SumLen(store.disk)

\* C7: with the flag set before verify_integrity is called with a pack, the call ends
\* in the interruption error, never in a success tuple, whatever the mode, the
\* algorithm and the thread limit.
C7_InterruptedBeforeStart ==
    (vf.phase = "done" /\ vf.pack /\ vf.set_at_call) =>
        (~vf.result.ok /\ vf.result.error = "Interrupted")

C7_Witness ==
    /\ vf.phase = "done" /\ vf.pack /\ vf.set_at_call
    /\ Len(vf.entries) = 2 /\ vf.thread_limit = 2
    /\ vf.mode = "HashCrc32DecodeEncode" /\ vf.algorithm = "DeltaTreeLookup"
    /\ vf.result.error = "Interrupted"

\* what verify_entry answers for the entry at position i of the index
EntryVerdict(v, i) ==
    verify_entry(v.mode, << >>, v.entries[i].kind, v.entries[i].buf, OidOf(i), << >>).ret

\* C8: whatever the workers' interleaving and whenever the flag is set, a success
\* with a pack means that every index entry was visited and verify_entry answered
\* Ok for each; a traversal that an entry's error or the flag ended early is an error.
C8_NoPartialSuccess ==
    (vf.phase = "done" /\ vf.pack) =>
        /\ vf.result.ok =>
              /\ vf.visited = DOMAIN vf.entries
              /\ \A i \in DOMAIN vf.entries : EntryVerdict(vf, i).ok
              /\ vf.result.outcome = [some |-> TRUE, entries |-> Len(vf.entries)]
        /\ (vf.visited # DOMAIN vf.entries
             \/ \E i \in DOMAIN vf.entries : i \notin vf.todo /\ ~EntryVerdict(vf, i).ok)
              => ~vf.result.ok

C8_Witness ==
    /\ vf.phase = "done" /\ vf.pack /\ vf.result.ok
    /\ Len(vf.entries) = 2 /\ vf.thread_limit = 2
    /\ vf.mode = "HashCrc32DecodeEncode"
    /\ vf.should_interrupt
    /\ vf.encode_buf[1] # << >> /\ vf.encode_buf[2] # << >>

\* C9: without a pack, verify_integrity runs verify_checksum and nothing else: no
\* traversal, no verify_entry; its result is (checksum, None, progress) with
\* verify_checksum's checksum, or verify_checksum's failure.
C9_ChecksumOnly ==
    ~vf.pack =>
        /\ vf.traversals = 0 /\ vf.entry_calls = 0
        /\ vf.phase \notin {"traverse_checksum", "traverse"}
        /\ vf.phase = "done" =>
              /\ vf.checksum.ok =>
                    vf.result = VerifyOk(vf.checksum.id, [some |-> FALSE, entries |-> 0], vf.progress)
              /\ ~vf.checksum.ok =>
                    (~vf.result.ok /\ vf.result.error = vf.checksum.error)

C9_Witness ==
    /\ ~vf.pack /\ vf.phase = "done" /\ vf.result.ok
    /\ vf.result.id = "index_checksum"
    /\ vf.progress = "Some" /\ Len(vf.entries) = 2

\* C10: in Mode::HashCrc32 verify_entry does nothing, whatever the kind and the bytes:
\* it returns Ok, runs no decoder, pushes no message and leaves the scratch buffer as
\* it was.
C10_HashCrc32NoOp ==
    (vf.called /\ vf.mode = "HashCrc32") =>
        /\ vf.ret = EntryOk
        /\ ~vf.decoded
        /\ vf.pushed = 0 /\ vf.infos = vf.told
        /\ vf.encode_buf = vf.before

C10_Witness ==
    /\ vf.called /\ vf.mode = "HashCrc32"
    /\ vf.kind = "Commit" /\ vf.buf = <<"junk", "line ">>
    /\ vf.before = <<"100644 f">> /\ vf.encode_buf = <<"100644 f">>
    /\ vf.ret = EntryOk

C5_Witness ==
    /\ pc = "iter"
    /\ calls = 3
    /\ Len(store.disk) = 2
    /\ num_objects = 3

\* C6: new() over a Snapshot without any pack index and without any loose store
\* succeeds, size_hint() is (0, None), and the first next() returns None, nothing yielded.
C6_EmptySnapshotIsEmptyIterator ==
    (store.disk = << >> /\ store.loose_dbs = << >> /\ pc \in {"iter", "panicked"}) =>
        /\ pc = "iter"
        /\ size_hint(num_objects) = <<0, "None">>
        /\ yielded = << >>
        /\ next(state, loose_dbs).ret = None

(***************************************************************************)
(* What verify_entry has to answer, read off the bytes.                    *)
(***************************************************************************)
TreeEntries == {"100644 f", "100664 f", "100644 100640", "040000 d"}

\* some field of the bytes is not of the grammar of the kind
Undecodable(kind, buf) ==
    \E i \in DOMAIN buf : IF kind = "Tree" THEN buf[i] \notin TreeEntries ELSE buf[i] = "junk"

\* the canonical spelling of a field of the kind
Canonical(kind, f) ==
    CASE kind = "Tree" /\ f = "100664 f" -> "100644 f"
      [] kind = "Tree" /\ f = "040000 d" -> "40000 d"
      [] kind # "Tree" /\ f = "line " -> "line"
      [] OTHER -> f

Reencoded(kind, buf) == [i \in DOMAIN buf |-> Canonical(kind, buf[i])]

\* the raw bytes hold the digits 100664 or 100640 somewhere
HasLegacyDigits(buf) == \E i \in DOMAIN buf : buf[i] \in {"100664 f", "100644 100640"}

Structured == {"Tree", "Commit", "Tag"}

\* C11: in HashCrc32Decode and HashCrc32DecodeEncode a Tree, Commit or Tag whose bytes
\* do not decode gives ObjectDecode with the decoder's error, the declared kind and the
\* entry's id; a Blob is never decoded and gives Ok whatever its bytes.
C11_DecodeFailureOrBlob ==
    (vf.called /\ vf.mode \in {"HashCrc32Decode", "HashCrc32DecodeEncode"}) =>
        /\ (vf.kind \in Structured /\ Undecodable(vf.kind, vf.buf)) =>
              /\ vf.decoded
              /\ vf.ret = [ok |-> FALSE, error |-> "ObjectDecode",
                           source |-> from_bytes(vf.kind, vf.buf).err,
                           kind |-> vf.kind, id |-> "a"]
              /\ vf.buf[vf.ret.source.at] \notin
                    (IF vf.kind = "Tree" THEN TreeEntries ELSE Field \ {"junk"})
        /\ vf.kind = "Blob" => (vf.ret = EntryOk /\ ~vf.decoded)

C11_Witness ==
    /\ vf.called /\ vf.mode = "HashCrc32Decode"
    /\ vf.kind = "Tree" /\ vf.buf = <<"100644 f", "line ">>
    /\ vf.ret.error = "ObjectDecode" /\ vf.ret.source.at = 2 /\ vf.ret.kind = "Tree"

\* C12: in HashCrc32DecodeEncode a Tree, Commit or Tag that decodes, is written back
\* differently and is not under the tree-mode tolerance gives ObjectEncodeMismatch
\* with the declared kind, the entry's id, expected the original bytes and actual
\* the bytes written back.
C12_EncodeMismatch ==
    (/\ vf.called /\ vf.mode = "HashCrc32DecodeEncode"
     /\ vf.kind \in Structured /\ ~Undecodable(vf.kind, vf.buf)
     /\ Reencoded(vf.kind, vf.buf) # vf.buf
     /\ ~(vf.kind = "Tree" /\ HasLegacyDigits(vf.buf))) =>
        vf.ret = [ok |-> FALSE, error |-> "ObjectEncodeMismatch", kind |-> vf.kind, id |-> "a",
                  expected |-> vf.buf, actual |-> Reencoded(vf.kind, vf.buf)]

C12_Witness ==
    /\ vf.called /\ vf.mode = "HashCrc32DecodeEncode"
    /\ vf.kind = "Commit" /\ vf.buf = <<"line ", "100664 f">>
    /\ vf.ret.error = "ObjectEncodeMismatch"
    /\ vf.ret.expected = <<"line ", "100664 f">> /\ vf.ret.actual = <<"line", "100664 f">>

\* C13: in HashCrc32DecodeEncode a Tree that decodes, is written back differently and
\* holds 100664 or 100640 in its raw bytes gives Ok and exactly one message.
C13_LegacyTreeModeTolerated ==
    (/\ vf.called /\ vf.mode = "HashCrc32DecodeEncode"
     /\ vf.kind = "Tree" /\ ~Undecodable(vf.kind, vf.buf)
     /\ Reencoded(vf.kind, vf.buf) # vf.buf
     /\ HasLegacyDigits(vf.buf)) =>
        /\ vf.ret = EntryOk
        /\ vf.pushed = 1
        /\ vf.infos = Append(vf.told, "a")

C13_Witness ==
    /\ vf.called /\ vf.mode = "HashCrc32DecodeEncode"
    /\ vf.kind = "Tree" /\ vf.buf = <<"040000 d", "100644 100640">>
    /\ vf.ret = EntryOk /\ vf.pushed = 1

Rank(mode) ==
    CASE mode = "HashCrc32" -> 0
      [] mode = "HashCrc32Decode" -> 1
      [] mode = "HashCrc32DecodeEncode" -> 2

\* C14: HashCrc32 < HashCrc32Decode < HashCrc32DecodeEncode, each doing what the one
\* below does and more: on any kind and bytes, Ok in a stricter mode means Ok in every
\* weaker one, and an error in a weaker mode an error in every stricter one.
C14_ModesOrdered ==
    vf.called =>
        LET In(m) == verify_entry(m, vf.before, vf.kind, vf.buf, "a", vf.told)
        IN /\ In(vf.mode).ret = vf.ret
           /\ \A weak \in Mode, strict \in Mode :
                 Rank(weak) <= Rank(strict) =>
                    /\ In(strict).ret.ok => In(weak).ret.ok
                    /\ ~In(weak).ret.ok => ~In(strict).ret.ok
                    /\ In(weak).decoded => In(strict).decoded

C14_Witness ==
    /\ vf.called /\ vf.mode = "HashCrc32Decode" /\ ~vf.ret.ok
    /\ vf.kind = "Tag" /\ vf.buf = <<"line ", "junk">>
    /\ ~verify_entry("HashCrc32DecodeEncode", vf.before, vf.kind, vf.buf, "a", vf.told).ret.ok
    /\ verify_entry("HashCrc32", vf.before, vf.kind, vf.buf, "a", vf.told).ret.ok

\* C19: verify_entry answers Ok with a message, in place of an error, exactly when the
\* mode is HashCrc32DecodeEncode, the kind Tree, the bytes decode, are written back
\* differently and hold 100664 or 100640. A Commit or Tag with those digits that is
\* written back differently is an ObjectEncodeMismatch, a Tree with them that does not
\* decode an ObjectDecode, and bytes written back unchanged push no message.
C19_OnlyTheTreeModeTolerance ==
    vf.called =>
        LET differs == Reencoded(vf.kind, vf.buf) # vf.buf
            decodes == ~Undecodable(vf.kind, vf.buf)
            case == /\ vf.mode = "HashCrc32DecodeEncode" /\ vf.kind = "Tree"
                    /\ decodes /\ differs /\ HasLegacyDigits(vf.buf)
        IN /\ (vf.ret.ok /\ vf.pushed > 0) <=> case
           /\ vf.pushed \in {0, 1}
           /\ (/\ vf.mode = "HashCrc32DecodeEncode" /\ vf.kind \in {"Commit", "Tag"}
               /\ decodes /\ differs /\ HasLegacyDigits(vf.buf))
                 => (~vf.ret.ok /\ vf.ret.error = "ObjectEncodeMismatch")
           /\ (/\ vf.mode \in {"HashCrc32Decode", "HashCrc32DecodeEncode"} /\ vf.kind = "Tree"
               /\ ~decodes /\ HasLegacyDigits(vf.buf))
                 => (~vf.ret.ok /\ vf.ret.error = "ObjectDecode")
           /\ (vf.kind \in Structured /\ decodes /\ ~differs) => (vf.ret.ok /\ vf.pushed = 0)
           /\ (vf.ret.ok /\ vf.pushed = 0 /\ vf.mode = "HashCrc32DecodeEncode"
               /\ vf.kind \in Structured) => ~differs

C19_Witness ==
    /\ vf.called /\ vf.mode = "HashCrc32DecodeEncode"
    /\ vf.kind = "Tag" /\ vf.buf = <<"100664 f", "line ">>
    /\ vf.ret.error = "ObjectEncodeMismatch" /\ vf.pushed = 0

\* C16 as stated: with at least one pack index and no loose store the iterator yields
\* every packed identifier, then becomes Depleted and returns None, without failing.
C16_PacksOnlyEndsDepleted ==
    (Len(snapshot.indices) >= 1 /\ snapshot.loose_dbs = << >>) =>
        /\ pc # "panicked"
        /\ (Len(yielded) = SumLen(snapshot.indices) /\ last = None /\ yielded # << >>) =>
              (ends > 0 /\ state.tag = "Depleted")

Want == PackEntries(snapshot) \o LooseItems(snapshot)

\* C17: next() returns None only when every pack index and every loose store has been
\* walked to its end; while an item is left in any later source, the call that finds
\* the current source at its end, or empty, passes over every empty source in between
\* and returns that item.
C17_NoneOnlyWhenAllExhausted ==
    /\ []((ends > 0) => yielded = Want)
    /\ [][(pc = "iter" /\ Len(yielded) < Len(Want)) =>
            /\ pc' = "iter"
            /\ last' = Some(Want[Len(yielded) + 1])
            /\ yielded' = Append(yielded, Want[Len(yielded) + 1])
            /\ ends' = 0]_vars

C17_Witness ==
    /\ snapshot.indices = << << >>, << >> >>
    /\ snapshot.loose_dbs = << << >>, <<Ok("a")>> >>
    /\ calls = 0 /\ ends = 0
    /\ yielded = <<Ok("a")>>
    /\ last = Some(Ok("a"))
    /\ state.tag = "Loose" /\ state.lindex = 1

\* the loose store, counted from 0, that holds the j-th loose item of the Snapshot
StoreOfItem(dbs, j) ==
    CHOOSE i \in 0..(Len(dbs) - 1) :
        /\ SumLen(SubSeq(dbs, 1, i)) < j
        /\ j <= SumLen(SubSeq(dbs, 1, i + 1))

\* C18: every item yielded in Pack state is Ok(id). An error item of a loose store is
\* returned as the item, and leaves the iterator in Loose state on the index of the
\* store that gave it, neither on the next store nor Depleted, so that the following
\* call polls the rest of the same store.
C18_ErrorItemKeepsLooseStore ==
    /\ []((state.tag = "Pack" /\ last.some) => (last.item.ok /\ \A i \in DOMAIN yielded : yielded[i].ok))
    /\ []((last.some /\ ~last.item.ok) =>
            LET j == Len(yielded) - SumLen(snapshot.indices)
                db == loose_dbs[state.lindex + 1]
            IN /\ yielded[Len(yielded)] = last.item
               /\ state.tag = "Loose"
               /\ state.lindex = StoreOfItem(loose_dbs, j)
               /\ state.iter = SubSeq(db, Len(db) - Len(state.iter) + 1, Len(db))
               /\ db[Len(db) - Len(state.iter)] = last.item)
    /\ [][(pc = "iter" /\ last.some /\ ~last.item.ok /\ state.iter # << >>) =>
            (last' = Some(Head(state.iter)) /\ state'.tag = "Loose" /\ state'.lindex = state.lindex)]_vars

C18_Witness ==
    /\ last = Some(Err)
    /\ state.tag = "Loose" /\ state.lindex = 0 /\ state.iter = <<Ok("a")>>
    /\ Len(loose_dbs) = 2 /\ loose_dbs[2] = <<Ok("a")>>
    /\ Len(yielded) = 3 /\ yielded[1].ok /\ yielded[2].ok

\* C20: no call of next() changes what size_hint() reports: in Pack, Loose and Depleted
\* state alike it is (the packed count taken at construction, None), not the number
\* of items still to come.
C20_SizeHintUnchangedByNext ==
    /\ [](pc = "iter" => size_hint(num_objects) = <<SumLen(snapshot.indices), "None">>)
    /\ [][size_hint(num_objects') = size_hint(num_objects)]_vars

C20_Witness ==
    /\ state.tag = "Depleted" /\ ends > 0
    /\ Len(yielded) = 5
    /\ size_hint(num_objects) = <<3, "None">>

\* C15: for an index file of len >= 2w bytes, w the width of a hash, pack_checksum()
\* is the bytes at [len-2w, len-w) and index_checksum() the bytes at [len-w, len):
\* adjacent, not overlapping, together the last 2w bytes; neither changes the data.
C15_TrailingChecksums ==
    (vf.phase = "checksum" /\ Len(vf.opened) >= 2 * vf.hash_len) =>
        LET len == Len(vf.opened)
            w == vf.hash_len
            pack_range == (len - 2 * w + 1)..(len - w)
            index_range == (len - w + 1)..len
            bytes_at(lo) == [i \in 1..w |-> vf.opened[lo + i]]
        IN /\ vf.data = vf.opened
           /\ vf.pack_ret.some => vf.pack_ret.item.bytes = bytes_at(len - 2 * w)
           /\ vf.index_ret.some => vf.index_ret.item.bytes = bytes_at(len - w)
           /\ pack_range \cap index_range = {}
           /\ pack_range \cup index_range = (len - 2 * w + 1)..len
           /\ (vf.pack_ret.some /\ vf.index_ret.some) =>
                 vf.pack_ret.item.bytes \o vf.index_ret.item.bytes = SubSeq(vf.opened, len - 2 * w + 1, len)

C15_Witness ==
    /\ vf.phase = "checksum"
    /\ vf.hash_len = 2 /\ vf.data = <<1, 0, 0, 1, 1, 1>>
    /\ vf.pack_ret = Some([bytes |-> <<0, 1>>])
    /\ vf.index_ret = Some([bytes |-> <<1, 1>>])

====
